---- MODULE Spec2Model ----
(***************************************************************************)
(* The N queens genetic algorithm of main.go: the board and the decode of  *)
(* free-position ordinals (place, generateBoard, fitness), the genome      *)
(* operators (NewSolution, NewRandomSolution, crossover, mutate) and the   *)
(* generational loop of main.                                              *)
(*                                                                         *)
(* Indices are the source's: a genome is a function on 0..QUEENS-1, a      *)
(* population a function on 0..POPSIZE-1, the board data a function on     *)
(* 0..width*width-1.  A fitness is kept as its numerator, the number of    *)
(* queens placed; the float64 the source computes is numerator / QUEENS,   *)
(* and every comparison of the source is made on the exact fractions.      *)
(*                                                                         *)
(* main.go:27-30 fixes QUEENS, BOARDSIZE, POPSIZE and MAXGENERATIONS at    *)
(* 20, 20, 2000 and 3000.  Here they are the configuration of a run, held  *)
(* in cfg and never changed after Init, so that the same code is run on    *)
(* boards and populations small enough to explore.                         *)
(***************************************************************************)
EXTENDS Integers, FiniteSets, Sequences, TLC

VARIABLES
    cfg,                   \* main.go:27-30, the constants of the run, and
                           \* the values its random source draws for a gene
    pop,                   \* main.go:251, the population
    generation,            \* main.go:252, the loop counter
    fit,                   \* main.go:256, fit[i] as a number of queens
    total,                 \* main.go:261, the sum of fit
    bestfitness,           \* main.go:265
    nextbestfitness,       \* main.go:266
    bestfitnessindex,      \* main.go:249, declared outside the loop
    nextbestfitnessindex,  \* main.go:267
    i,                     \* main.go:285, the index of the operator pass
    pc,                    \* where main is: "eval", "pass" or "done"
    evals,                 \* history: the generations evaluated so far
    ev,                    \* history: what the last turn of the pass did
    board,                 \* main.go:153, the board of a decode under way
    queenCounter,          \* main.go:154
    gene,                  \* main.go:155, the genes of the genome consumed
    call,                  \* history: the last call of place and its result
    failures,              \* history: the calls of place that failed
    result,                \* main.go:199, numqueens once fitness has it, else -1
    cxA, cxB, cxPoint,     \* main.go:223, the arguments of a crossover
    cxChild                \* main.go:232, its result, <<>> before the call

\* main.go:24-26, the three cell states.
FREE == 0
QUEEN == 1
COVERED == 2

\* main.go:27-30.
QUEENS == cfg.QUEENS
BOARDSIZE == cfg.BOARDSIZE
POPSIZE == cfg.POPSIZE
MAXGENERATIONS == cfg.MAXGENERATIONS

\* The largest board of a decode explored gene by gene, every ordinal of
\* [0, N*N) tried for every gene.
MaxBoard == 4

\* The setup explored from every initial population: a board on which
\* fitness 1.0 is reached, genes drawn from 0..MaxGene.
SmallBoard == 4
SmallPop == 2
SmallGenerations == 2
MaxGene == 1

\* The setup in which the reset of main.go:293-297 happens: it needs a
\* fitness below 0.3 times the average, so a longer genome, and genes that
\* fail to place (the top ordinal).  Its runs start from seeded populations
\* and draw genes from 0..MaxGene and the top ordinal.
WideBoard == 7
WidePop == 2
WideGenerations == 1

\* The longest genome whose crossovers are tried at every cut point.
MaxCross == 4

\* The selection scan alone: board width and population size.
ScanBoard == 4
ScanPop == 3

\* The population of the runs that reach the unconditional resets.
ResetPop == 3

\* The widest board on which the genome NewSolution returns is decoded.
ZeroBoard == 8

\* uint arithmetic wraps.  The source's uint is 64 bits wide; every operand
\* here is below 2*BOARDSIZE, and a wrapped value is only ever compared with
\* the board width or brought back in range by the next addition, so the
\* modulus used is 2^30, which fits the model checker's integers.
UintMod == 2^30

UAdd(a, b) == (a + b) % UintMod

USub(a, b) == (a - b) % UintMod

Cells(w) == 0 .. (w * w - 1)

\* main.go:65-70, NewBoard: every cell FREE (the zero value).
NewBoard(w) == [width |-> w, data |-> [p \in Cells(w) |-> FREE]]

\* main.go:85-97, pos2xy: the scan over BOARDSIZE rows and columns, which
\* returns (255, 255) when pos is past the board.
pos2xy(pos) ==
    IF pos < BOARDSIZE * BOARDSIZE
    THEN [x |-> pos % BOARDSIZE, y |-> pos \div BOARDSIZE]
    ELSE [x |-> 255, y |-> 255]

\* main.go:119-121: the indices written for the row and the column of o.
CoverLines(b, o) ==
    { y * b.width + x : <<x, y>> \in
        { c \in (0 .. b.width - 1) \X (0 .. b.width - 1) : o.x = c[1] \/ o.y = c[2] } }

\* The diagonal marking with signed coordinates and no bounds test: an
\* off-board column lands in a neighbouring row.
CoverDownWrapped(b, o) ==
    { t * b.width + (t + o.x - o.y) : t \in 0 .. b.width - 1 }
        \cap Cells(b.width)

\* main.go:123-129: for x == y, the cell (x + o.x - o.y, y) when it is on the
\* board (upper left to lower right).
CoverDown(b, o) ==
    { c[2] * b.width + c[1] : c \in
        { d \in { <<USub(UAdd(t, o.x), o.y), t>> : t \in 0 .. b.width - 1 } :
            (d[1] >= 0 /\ d[2] >= 0) /\ (d[1] < b.width /\ d[2] < b.width) } }

\* main.go:131-137: for maxx - x == y, the cell (x - (maxx - o.x) + o.y, y)
\* when it is on the board (upper right to lower left).
CoverUp(b, o) ==
    LET maxx == b.width - 1
    IN { c[2] * b.width + c[1] : c \in
        { d \in { <<UAdd(USub(USub(maxx, y), USub(maxx, o.x)), o.y),
                    USub(UAdd(y, o.y), o.y)>> : y \in 0 .. b.width - 1 } :
            (d[1] >= 0 /\ d[2] >= 0) /\ (d[1] < BOARDSIZE /\ d[2] < b.width) } }

\* Marking the queen before the lines, so that the row and column marking
\* overwrites it.
MarkQueenFirst(b, usepos) ==
    LET o == pos2xy(usepos)
        covered == CoverLines(b, o) \cup CoverDown(b, o) \cup CoverUp(b, o)
    IN [b EXCEPT !.data = [p \in DOMAIN b.data |->
            IF p \in covered THEN COVERED
            ELSE IF p = usepos THEN QUEEN ELSE b.data[p]]]

\* Marking the row and the column only.
MarkNoDiagonals(b, usepos) ==
    LET o == pos2xy(usepos)
        covered == CoverLines(b, o)
    IN [b EXCEPT !.data = [p \in DOMAIN b.data |->
            IF p = usepos THEN QUEEN
            ELSE IF p \in covered THEN COVERED ELSE b.data[p]]]

\* main.go:113-142: every cell of the row, the column and the two diagonals
\* is set to COVERED, whatever it held, and then the chosen cell to QUEEN.
Mark(b, usepos) ==
    LET o == pos2xy(usepos)
        covered == CoverLines(b, o) \cup CoverDown(b, o) \cup CoverUp(b, o)
    IN [b EXCEPT !.data = [p \in DOMAIN b.data |->
            IF p = usepos THEN QUEEN
            ELSE IF p \in covered THEN COVERED ELSE b.data[p]]]

RECURSIVE PlaceScan(_, _, _, _)
\* main.go:110-149, the scan of place from usepos on, freepos free cells
\* having been passed.
PlaceScan(b, targetpos, usepos, freepos) ==
    IF ~(usepos < b.width * b.width)
    THEN [pos |-> 0, err |-> TRUE, board |-> b]
    ELSE IF targetpos = freepos /\ b.data[usepos] = FREE
    THEN [pos |-> usepos, err |-> FALSE, board |-> Mark(b, usepos)]
    ELSE PlaceScan(b, targetpos, usepos + 1,
                   IF b.data[usepos] = FREE THEN freepos + 1 ELSE freepos)

\* The count of free cells started at 1, the ordinal taken as 1-based.
placeOneBased(b, targetpos) == PlaceScan(b, targetpos, 0, 1)

\* main.go:102-150, Board.place: the position, the error and the board left.
place(b, targetpos) == PlaceScan(b, targetpos, 0, 0)


\* The loop body counting a queen whether or not place failed.
DecodeGeneCountsAll(b, cnt, queenposindex) ==
    LET r == place(b, queenposindex)
    IN [board |-> r.board, queenCounter |-> cnt + 1, pos |-> r.pos, err |-> r.err]

\* main.go:156-159, the loop body of generateBoard for one gene: the queen
\* is counted when place returned no error.
DecodeGene(b, cnt, queenposindex) ==
    LET r == place(b, queenposindex)
    IN [board |-> r.board,
        queenCounter |-> IF r.err THEN cnt ELSE cnt + 1,
        pos |-> r.pos, err |-> r.err]

RECURSIVE DecodeFrom(_, _, _, _)
\* main.go:155-160, the loop of generateBoard from gene k on.
DecodeFrom(sol, k, b, cnt) ==
    IF k = Cardinality(DOMAIN sol)
    THEN [board |-> b, queenCounter |-> cnt]
    ELSE LET r == DecodeGene(b, cnt, sol[k])
         IN DecodeFrom(sol, k + 1, r.board, r.queenCounter)

\* main.go:152-162, Solution.generateBoard: a fresh board, every gene placed
\* in order, the successes counted.
generateBoard(sol) == DecodeFrom(sol, 0, NewBoard(BOARDSIZE), 0)

\* main.go:198-201, Solution.fitness, as the numerator of numqueens / QUEENS.
fitness(sol) == generateBoard(sol).queenCounter

\* rand.Intn(n): any of 0..n-1.
Intn(n) == 0 .. (n - 1)

\* rand.Intn(maxboardpos) where a gene is drawn, within the draws modelled.
GeneDraw(maxboardpos) == { v \in Intn(maxboardpos) : v \in cfg.draws }

\* A genome of ones.
NewSolutionOnes(numqueens) == [k \in 0 .. (numqueens - 1) |-> 1]

\* A genome one gene short.
NewSolutionShort(numqueens) == [k \in 0 .. (numqueens - 2) |-> 0]

\* main.go:72-74, NewSolution: numqueens genes, all zero.
NewSolution(numqueens) == [k \in 0 .. (numqueens - 1) |-> 0]

\* main.go:76-83, NewRandomSolution: the genomes it can return.
NewRandomSolution(numqueens, maxboardpos) ==
    [DOMAIN NewSolution(numqueens) -> GeneDraw(maxboardpos)]

\* main.go:203-212, NewPopulation: the populations it can return.
NewPopulation(size) ==
    [0 .. (size - 1) -> NewRandomSolution(QUEENS, BOARDSIZE * BOARDSIZE)]

\* The second loop copying from a instead of b.
crossoverFromA(a, b, point, numqueens) ==
    LET c0 == NewSolution(numqueens)
        c1 == [k \in DOMAIN c0 |-> IF k < point THEN a[k] ELSE c0[k]]
    IN [k \in DOMAIN c1 |-> IF point <= k /\ k < numqueens THEN a[k] ELSE c1[k]]

\* main.go:223-233, crossover: a new genome, genes below point copied from a
\* by the first loop, genes from point on copied from b by the second.
crossover(a, b, point, numqueens) ==
    LET c0 == NewSolution(numqueens)
        c1 == [k \in DOMAIN c0 |-> IF k < point THEN a[k] ELSE c0[k]]
    IN [k \in DOMAIN c1 |-> IF point <= k /\ k < numqueens THEN b[k] ELSE c1[k]]

\* main.go:235-238, Solution.mutate, with the two numbers it draws.
mutate(sol, randpos, value) == [sol EXCEPT ![randpos] = value]

RECURSIVE sum(_, _)
\* main.go:240-246, sum over the first n scores.
sum(scores, n) == IF n = 0 THEN 0 ELSE sum(scores, n - 1) + scores[n - 1]


gaVars == <<pop, generation, fit, total, bestfitness, nextbestfitness,
            bestfitnessindex, nextbestfitnessindex, i, pc, evals, ev>>

decodeVars == <<board, queenCounter, gene, call, failures, result>>

crossVars == <<cxA, cxB, cxPoint, cxChild>>

vars == <<cfg, gaVars, decodeVars, crossVars>>

NoCall == [made |-> FALSE, arg |-> 0, pos |-> 0, err |-> FALSE,
           before |-> NewBoard(BOARDSIZE).data, counted |-> 0]

NoEvent == [gen |-> -1, turn |-> -1, reset |-> FALSE, skip |-> FALSE, mut |-> -1,
            cross |-> -1, fresh |-> FALSE, by |-> "none"]

\* A run on an n by n board with n queens.
Setup(n, popsize, maxgenerations, draws, seeded) ==
    [QUEENS |-> n, BOARDSIZE |-> n, POPSIZE |-> popsize,
     MAXGENERATIONS |-> maxgenerations, draws |-> draws, seeded |-> seeded]

SmallSetup ==
    Setup(SmallBoard, SmallPop, SmallGenerations, 0 .. MaxGene, FALSE)

WideSetup ==
    Setup(WideBoard, WidePop, WideGenerations,
          (0 .. MaxGene) \cup {WideBoard * WideBoard - 1}, TRUE)

\* The genomes a seeded run starts from.  The top ordinal fails to place
\* once a queen is on the board.  The first seed is one gene 0 and then the
\* top ordinal: one queen placed.  The second is zeros with the gene 3 at 1
\* and the last gene at the top ordinal: on the board of width 7 its first
\* six genes place six queens and the last one fails.
Seeds ==
    LET top == BOARDSIZE * BOARDSIZE - 1
    IN { [k \in 0 .. (QUEENS - 1) |-> IF k = 0 THEN 0 ELSE top],
         [k \in 0 .. (QUEENS - 1) |->
             IF k = QUEENS - 1 THEN top ELSE IF k = 3 THEN 1 ELSE 0] }

\* main.go:251: the populations NewPopulation can return that the run is
\* started from.
InitialPopulations ==
    IF cfg.seeded
    THEN [0 .. (POPSIZE - 1) -> Seeds]
    ELSE NewPopulation(POPSIZE)

\* main.go:249-252: the state when the loop is first reached.
GAStart ==
    /\ generation = 0
    /\ fit = [k \in 0 .. (POPSIZE - 1) |-> 0]
    /\ total = 0
    /\ bestfitness = 0
    /\ nextbestfitness = 0
    /\ bestfitnessindex = 0
    /\ nextbestfitnessindex = 0
    /\ i = 0
    /\ pc = "eval"
    /\ evals = 0
    /\ ev = NoEvent

\* main.go:153-154: generateBoard before its first gene.
DecodeStart ==
    /\ board = NewBoard(BOARDSIZE)
    /\ queenCounter = 0
    /\ gene = 0
    /\ call = NoCall
    /\ failures = 0
    /\ result = -1

\* No crossover under way.
CrossIdle ==
    /\ cxA = NewSolution(QUEENS)
    /\ cxB = NewSolution(QUEENS)
    /\ cxPoint = 0
    /\ cxChild = <<>>

\* main.go:248-252: main about to enter its loop.
Init ==
    /\ cfg \in {SmallSetup, WideSetup}
    /\ pop \in InitialPopulations
    /\ GAStart
    /\ DecodeStart
    /\ CrossIdle

\* A genome about to be decoded, on every board up to MaxBoard.
DecodeInit ==
    /\ cfg \in { Setup(n, 1, 0, 0 .. (n * n - 1), FALSE) : n \in 1 .. MaxBoard }
    /\ pop = [k \in 0 .. (POPSIZE - 1) |-> NewSolution(QUEENS)]
    /\ GAStart
    /\ DecodeStart
    /\ CrossIdle

\* Two genomes and a cut point about to be crossed.
CrossInit ==
    /\ cfg \in { Setup(n, 1, 0, 0 .. MaxGene, FALSE) : n \in 1 .. MaxCross }
    /\ pop = [k \in 0 .. (POPSIZE - 1) |-> NewSolution(QUEENS)]
    /\ GAStart
    /\ DecodeStart
    /\ cxA \in NewRandomSolution(QUEENS, BOARDSIZE * BOARDSIZE)
    /\ cxB \in NewRandomSolution(QUEENS, BOARDSIZE * BOARDSIZE)
    /\ cxPoint \in 0 .. QUEENS
    /\ cxChild = <<>>

(***************************************************************************)
(* The decode of one genome, main.go:152-162 and 198-201, gene by gene.    *)
(***************************************************************************)

\* main.go:156-159: one turn of generateBoard's loop, for the gene
\* queenposindex.
PlaceOrdinal(queenposindex) ==
    /\ result = -1
    /\ gene < QUEENS
    /\ LET r == DecodeGene(board, queenCounter, queenposindex)
       IN /\ board' = r.board
          /\ queenCounter' = r.queenCounter
          /\ call' = [made |-> TRUE, arg |-> queenposindex, pos |-> r.pos,
                      err |-> r.err, before |-> board.data,
                      counted |-> queenCounter]
          /\ failures' = failures + (IF r.err THEN 1 ELSE 0)
    /\ gene' = gene + 1
    /\ UNCHANGED <<cfg, result, gaVars, crossVars>>

\* main.go:155-160: the next gene of the genome, any ordinal of [0, N*N), is
\* handed to place.
PlaceGene == \E queenposindex \in Intn(BOARDSIZE * BOARDSIZE) : PlaceOrdinal(queenposindex)

\* main.go:155-160: the next gene of the genome stored in slot 0 is handed
\* to place.
PlaceStored == gene < QUEENS /\ PlaceOrdinal(pop[0][gene])

\* main.go:161 and 199-200: the loop is over and fitness takes numqueens.
FitnessReturn ==
    /\ result = -1
    /\ ~(gene < QUEENS)
    /\ result' = queenCounter
    /\ UNCHANGED <<cfg, board, queenCounter, gene, call, failures, gaVars, crossVars>>

DecodeNext == PlaceGene \/ FitnessReturn

DecodeSpec == DecodeInit /\ [][DecodeNext]_vars

\* A genome of m genes 0 and then the top ordinal, which fails to place once
\* a queen is on the board: its fitness is the number of queens its m zeros
\* place.
Ladder(m) ==
    [k \in 0 .. (QUEENS - 1) |-> IF k < m THEN 0 ELSE BOARDSIZE * BOARDSIZE - 1]

\* main.go:72-74 and 152-154: a stored genome about to be decoded on a board
\* of width 2 to ZeroBoard: the genome NewSolution returns, or a ladder.
ZeroInit ==
    /\ cfg \in { Setup(n, 1, 0, {0}, FALSE) : n \in 2 .. ZeroBoard }
    /\ pop \in [0 .. (POPSIZE - 1) ->
                  {NewSolution(QUEENS)} \cup { Ladder(m) : m \in 1 .. QUEENS }]
    /\ GAStart
    /\ DecodeStart
    /\ CrossIdle

ZeroNext == PlaceStored \/ FitnessReturn

ZeroSpec == ZeroInit /\ [][ZeroNext]_vars

(***************************************************************************)
(* One crossover, main.go:223-233.                                         *)
(***************************************************************************)

Cross ==
    /\ cxChild = <<>>
    /\ cxChild' = crossover(cxA, cxB, cxPoint, QUEENS)
    /\ UNCHANGED <<cfg, cxA, cxB, cxPoint, gaVars, decodeVars>>

CrossSpec == CrossInit /\ [][Cross]_vars

(***************************************************************************)
(* The generational loop, main.go:254-335.                                 *)
(***************************************************************************)

\* The loop test with <= for <.
LoopGuardInclusive(g) == g <= MAXGENERATIONS

\* main.go:254, the loop test.
LoopGuard(g) == g < MAXGENERATIONS

RECURSIVE ScanStrict(_, _, _)
\* The selection scan with > for >=.
ScanStrict(f, k, s) ==
    IF k = Cardinality(DOMAIN f)
    THEN s
    ELSE ScanStrict(f, k + 1,
                    IF f[k] > s.best
                    THEN [best |-> f[k], next |-> s.best, nexti |-> s.besti, besti |-> k]
                    ELSE s)

RECURSIVE Scan(_, _, _)
\* main.go:268-275: the selection scan from index k on; s holds bestfitness,
\* nextbestfitness and the two indices.
Scan(f, k, s) ==
    IF k = Cardinality(DOMAIN f)
    THEN s
    ELSE Scan(f, k + 1,
              IF f[k] >= s.best
              THEN [best |-> f[k], next |-> s.best, nexti |-> s.besti, besti |-> k]
              ELSE s)

\* main.go:263 and the tests on average: average > tenths/10, where average
\* is total / popsize and a fitness is a number of queens over QUEENS.
AverageAbove(tenths) == 10 * total > tenths * QUEENS * POPSIZE

\* fitness < tenths/10.
FitnessBelow(n, tenths) == 10 * n < tenths * QUEENS

\* main.go:287-292, the three tests that reset individual i unconditionally.
ResetAlways(n) ==
    \/ AverageAbove(7) /\ FitnessBelow(n, 5)
    \/ AverageAbove(8) /\ FitnessBelow(n, 6)
    \/ AverageAbove(9) /\ FitnessBelow(n, 7)

\* main.go:293, fitness < average * 0.3.
ResetMaybe(n) == 10 * n * POPSIZE < 3 * total

\* mutrate without the factor 3 of main.go:307-309.
MutRateFlat == IF bestfitness * POPSIZE > total THEN 15 ELSE 40

\* main.go:299-309, mutrate in percent.
MutRate ==
    LET base == IF bestfitness * POPSIZE > total THEN 15 ELSE 40
    IN IF bestfitness = nextbestfitness THEN base * 3 ELSE base

\* main.go:299-306, crossrate in percent.
CrossRate == IF bestfitness * POPSIZE > total THEN 7 ELSE 40

\* main.go:310-314, newpoprate in percent.
NewPopRate == IF AverageAbove(9) THEN 40 ELSE 20

\* rand.Float64() <= rate: Float64 is in [0,1), so a rate of 1 or more
\* always passes, and a smaller positive one may pass or not.
Chance(percent) == IF percent >= 100 THEN {TRUE} ELSE {TRUE, FALSE}

\* The elitism test with 0.4 for 0.9.
NearBestLoose(n) == 10 * n > 4 * bestfitness

\* main.go:316, fitness > bestfitness * 0.9.
NearBest(n) == 10 * n > 9 * bestfitness

\* main.go:288, 290, 292, 296 and 332: the genomes a replacement can write,
\* NewSolution(QUEENS) at every one of them.
Replacements == { NewSolution(QUEENS) }

\* main.go:287-298: the populations the reset step of turn t can leave.
ResetStep(p, t) ==
    LET replaced == { [pop |-> [p EXCEPT ![t] = g], reset |-> TRUE] :
                        g \in Replacements }
        kept == [pop |-> p, reset |-> FALSE]
    IN IF ResetAlways(fit[t]) THEN replaced
       ELSE IF ResetMaybe(fit[t]) THEN replaced \cup {kept}
       ELSE {kept}

\* The mutation step on a population whose slot j and the slot after it share
\* one backing array: the write shows in both.
MutateStepShared(p) ==
    { [pop |-> p, mut |-> -1] : c \in { c \in Chance(MutRate) : ~c } }
    \cup
    { [pop |-> [k \in DOMAIN p |->
                  IF k = j \/ k = (j + 1) % POPSIZE
                  THEN mutate(p[k], randpos, value) ELSE p[k]],
       mut |-> j] :
        <<j, randpos, value>> \in
            { c \in Intn(POPSIZE) \X Intn(QUEENS) \X GeneDraw(BOARDSIZE * BOARDSIZE) :
                TRUE \in Chance(MutRate) } }

\* main.go:322-324: the mutation of a random individual, or none.
MutateStep(p) ==
    { [pop |-> p, mut |-> -1] : c \in { c \in Chance(MutRate) : ~c } }
    \cup
    { [pop |-> [p EXCEPT ![j] = mutate(p[j], randpos, value)], mut |-> j] :
        <<j, randpos, value>> \in
            { c \in Intn(POPSIZE) \X Intn(QUEENS) \X GeneDraw(BOARDSIZE * BOARDSIZE) :
                TRUE \in Chance(MutRate) } }

\* The crossover step reading its parents from the population as the turn
\* found it, not as the turn's reset and mutation left it.
CrossStepStale(p, t) ==
    { [pop |-> p, cross |-> -1] : c \in { c \in Chance(CrossRate) : ~c } }
    \cup
    { [pop |-> [p EXCEPT ![t] = crossover(pop[bestfitnessindex],
                                           pop[nextbestfitnessindex],
                                           crossoverpoint, QUEENS)],
       cross |-> crossoverpoint] :
        crossoverpoint \in { c \in Intn(QUEENS) : TRUE \in Chance(CrossRate) } }

\* main.go:326-329: the crossover written to slot t, or none.
CrossStep(p, t) ==
    { [pop |-> p, cross |-> -1] : c \in { c \in Chance(CrossRate) : ~c } }
    \cup
    { [pop |-> [p EXCEPT ![t] = crossover(p[bestfitnessindex],
                                           p[nextbestfitnessindex],
                                           crossoverpoint, QUEENS)],
       cross |-> crossoverpoint] :
        crossoverpoint \in { c \in Intn(QUEENS) : TRUE \in Chance(CrossRate) } }

\* main.go:331-333: the new individual written to slot t, or none.
FreshStep(p, t) ==
    { [pop |-> p, fresh |-> FALSE] : c \in { c \in Chance(NewPopRate) : ~c } }
    \cup
    { [pop |-> [p EXCEPT ![t] = g], fresh |-> TRUE] :
        g \in { g \in Replacements : TRUE \in Chance(NewPopRate) } }

\* The function that built the genome turn t left in its slot, "none" when
\* the turn did not write the slot.
Builder(reset, cross, fresh) ==
    IF fresh \/ (reset /\ cross = -1) THEN "NewSolution"
    ELSE IF cross # -1 THEN "crossover"
    ELSE "none"

\* main.go:285-334, the body of the pass for individual t: every population
\* it can leave, with what it did.
TurnOutcomes(p, t) ==
    UNION { 
        (IF NearBest(fit[t])
         THEN { [pop |-> r.pop,
                 ev |-> [gen |-> generation, turn |-> t, reset |-> r.reset, skip |-> TRUE, mut |-> -1,
                         cross |-> -1, fresh |-> FALSE,
                         by |-> Builder(r.reset, -1, FALSE)]] }
         ELSE {})
        \cup
        UNION { UNION { 
            { [pop |-> f.pop,
               ev |-> [gen |-> generation, turn |-> t, reset |-> r.reset, skip |-> FALSE, mut |-> m.mut,
                       cross |-> c.cross, fresh |-> f.fresh,
                       by |-> Builder(r.reset, c.cross, f.fresh)]] :
              f \in FreshStep(c.pop, t) } :
            c \in CrossStep(m.pop, t) } :
          m \in MutateStep(r.pop) } :
      r \in ResetStep(p, t) }

\* main.go:256-281: the fitness of every individual, the average, the
\* selection scan and the test that ends the loop.
Evaluate ==
    /\ pc = "eval"
    /\ LoopGuard(generation)
    /\ LET f == [k \in DOMAIN pop |-> fitness(pop[k])]
           s == Scan(f, 0, [best |-> 0, next |-> 0, nexti |-> 0,
                            besti |-> bestfitnessindex])
       IN /\ fit' = f
          /\ total' = sum(f, POPSIZE)
          /\ bestfitness' = s.best
          /\ nextbestfitness' = s.next
          /\ bestfitnessindex' = s.besti
          /\ nextbestfitnessindex' = s.nexti
          /\ pc' = IF s.best = QUEENS THEN "done" ELSE "pass"
    /\ i' = 0
    /\ evals' = evals + 1
    /\ UNCHANGED <<cfg, pop, generation, ev, decodeVars, crossVars>>

\* main.go:285-334: one iteration of the operator pass.
Turn ==
    /\ pc = "pass"
    /\ i < Cardinality(DOMAIN pop)
    /\ \E o \in TurnOutcomes(pop, i) :
          /\ pop' = o.pop
          /\ ev' = o.ev
    /\ i' = i + 1
    /\ UNCHANGED <<cfg, generation, fit, total, bestfitness, nextbestfitness,
                   bestfitnessindex, nextbestfitnessindex, pc, evals,
                   decodeVars, crossVars>>

\* main.go:254 and 334-335: the pass is over, generation++.
NextGeneration ==
    /\ pc = "pass"
    /\ ~(i < Cardinality(DOMAIN pop))
    /\ generation' = generation + 1
    /\ pc' = "eval"
    /\ UNCHANGED <<cfg, pop, fit, total, bestfitness, nextbestfitness,
                   bestfitnessindex, nextbestfitnessindex, i, evals, ev,
                   decodeVars, crossVars>>

\* main.go:254 and 336-337: the loop test fails and main reports.
Exhausted ==
    /\ pc = "eval"
    /\ ~LoopGuard(generation)
    /\ pc' = "done"
    /\ UNCHANGED <<cfg, pop, generation, fit, total, bestfitness, nextbestfitness,
                   bestfitnessindex, nextbestfitnessindex, i, evals, ev,
                   decodeVars, crossVars>>

\* main.go:337, the genome main prints.
Reported == pop[bestfitnessindex]

Next == Evaluate \/ Turn \/ NextGeneration \/ Exhausted

Spec == Init /\ [][Next]_vars

(***************************************************************************)
(* One evaluation, main.go:256-281, of populations of three or more.       *)
(***************************************************************************)

\* main.go:251 and 254: populations NewPopulation can return, about to be
\* evaluated for the first time.
ScanInit ==
    /\ cfg = Setup(ScanBoard, ScanPop, 1, {0}, TRUE)
    /\ pop \in [0 .. (POPSIZE - 1) -> { Ladder(m) : m \in 1 .. QUEENS }]
    /\ GAStart
    /\ DecodeStart
    /\ CrossIdle

ScanSpec == ScanInit /\ [][Evaluate]_vars

(***************************************************************************)
(* Runs whose first generation meets the reset tests of main.go:287-298.   *)
(***************************************************************************)

\* main.go:251 and 254: populations NewPopulation can return, in which one
\* individual places one queen or three and every other is the seed that
\* places all but one.
ResetInit ==
    /\ cfg = Setup(WideBoard, ResetPop, 1, {0}, TRUE)
    /\ pop \in { [k \in 0 .. (POPSIZE - 1) |->
                    IF k = w THEN weak ELSE CHOOSE g \in Seeds : g # Ladder(1)] :
                  <<w, weak>> \in (0 .. (POPSIZE - 1)) \X {Ladder(1), Ladder(3)} }
    /\ GAStart
    /\ DecodeStart
    /\ CrossIdle

ResetSpec == ResetInit /\ [][Next]_vars

(***************************************************************************)
(* The properties.                                                         *)
(***************************************************************************)

\* The cell at index p, as the column x and the row y of p = y*N + x.
Coord(p) == [x |-> p % BOARDSIZE, y |-> p \div BOARDSIZE]

\* Two cells on a common row, column or diagonal.
Attacks(p, q) ==
    LET a == Coord(p)
        b == Coord(q)
    IN \/ a.x = b.x
       \/ a.y = b.y
       \/ a.x - a.y = b.x - b.y
       \/ a.x + a.y = b.x + b.y

CellsHolding(data, t) == { p \in DOMAIN data : data[p] = t }

FreeBefore(data, p) == { q \in DOMAIN data : q < p /\ data[q] = FREE }

\* C1: for every genome of QUEENS genes in [0, N*N), the fitness
\* numqueens / QUEENS lies in [0, 1], and it is 1.0 exactly when the decoded
\* board holds QUEENS queens no two of which share a row, a column or a
\* diagonal.
C1_FitnessOneIffSolution ==
    result # -1 =>
        /\ 0 <= result /\ result <= QUEENS
        /\ (result = QUEENS) <=>
              LET queens == CellsHolding(board.data, QUEEN)
              IN /\ Cardinality(queens) = QUEENS
                 /\ \A p \in queens : \A q \in queens : p # q => ~Attacks(p, q)

\* A decode of four genes that placed four queens, and so has fitness 1.0.
C1_Witness == result = QUEENS /\ BOARDSIZE = 4 /\ failures = 0

\* C2: while a genome is decoded, a Queen cell stays Queen and a Covered cell
\* stays Covered across every call of place, the cell chosen by a
\* successful call was Free, and the board holds as many Queen cells as
\* placements have succeeded.
C2_CellsConsumedMonotonically ==
    /\ Cardinality(CellsHolding(board.data, QUEEN)) = queenCounter
    /\ call.made =>
          /\ \A p \in DOMAIN board.data :
                /\ call.before[p] = QUEEN => board.data[p] = QUEEN
                /\ call.before[p] = COVERED => board.data[p] = COVERED
          /\ ~call.err => call.before[call.pos] = FREE

\* A third queen placed on a board that already held queens and covered
\* cells before the chosen one.
C2_Witness ==
    /\ call.made /\ ~call.err /\ queenCounter = 3
    /\ \E p \in DOMAIN call.before : p < call.pos /\ call.before[p] = COVERED

\* C3: place(ordinal) succeeds exactly when ordinal is below the number of
\* Free cells, and the cell it turns into Queen is the Free cell with exactly
\* ordinal Free cells before it in row-major order.
C3_PlaceSelectsOrdinal ==
    call.made =>
        /\ ~call.err <=> call.arg < Cardinality(CellsHolding(call.before, FREE))
        /\ ~call.err =>
              /\ call.before[call.pos] = FREE
              /\ board.data[call.pos] = QUEEN
              /\ Cardinality(FreeBefore(call.before, call.pos)) = call.arg

\* A successful call whose ordinal is not the absolute index of the cell
\* chosen: cells that were not Free were passed over.
C3_Witness ==
    /\ call.made /\ ~call.err /\ call.arg > 0 /\ call.pos > call.arg

\* C4: a call of place with an ordinal not below the number of Free cells
\* returns the error and leaves every cell as it was, no queen is counted
\* for it, and the decode goes on: the failed gene is consumed like any
\* other, and fitness is taken only after all QUEENS genes, so that the next
\* gene is handed to place (PlaceGene asks no more than a gene left).
C4_FailedPlaceIsAbsorbed ==
    /\ (call.made /\ call.arg >= Cardinality(CellsHolding(call.before, FREE))) =>
          /\ call.err
          /\ board.data = call.before
          /\ queenCounter = call.counted
    /\ gene <= QUEENS
    /\ result # -1 => gene = QUEENS
    /\ call.made => gene >= 1

\* A gene placed after an earlier gene of the same genome failed.
C4_Witness ==
    /\ call.made /\ ~call.err /\ failures > 0 /\ queenCounter >= 2

\* C5: after a successful place at (ox, oy), the cells that went from Free
\* to Covered are exactly the other cells of the board that were Free and
\* lie on its row, its column or one of its two diagonals; the chosen cell
\* is Queen and every other cell is unchanged.
C5_CoversExactlyTheLines ==
    (call.made /\ ~call.err) =>
        LET attacked == { p \in DOMAIN call.before :
                            /\ p # call.pos
                            /\ call.before[p] = FREE
                            /\ Attacks(p, call.pos) }
        IN /\ { p \in DOMAIN call.before :
                    call.before[p] = FREE /\ board.data[p] = COVERED } = attacked
           /\ board.data[call.pos] = QUEEN
           /\ \A p \in DOMAIN call.before :
                 (p # call.pos /\ p \notin attacked) => board.data[p] = call.before[p]

\* A queen placed below the main diagonal on a board of width 4: both
\* diagonal computations wrap below zero for some rows, and Free cells of
\* other rows are left Free.
C5_Witness ==
    /\ call.made /\ ~call.err /\ BOARDSIZE = 4
    /\ Coord(call.pos).y > Coord(call.pos).x + 1
    /\ CellsHolding(board.data, FREE) # {}

\* C6: a replacement of individual i writes a genome built as population
\* initialization builds one, so that any genome over the range can be the
\* one written.
C6_ReplacementIsRandom ==
    (ev.reset \/ ev.fresh) =>
        Replacements = NewRandomSolution(QUEENS, BOARDSIZE * BOARDSIZE)

\* The steps main has left at most: the loop test, and for every generation
\* not yet passed its evaluation, its turns and its generation++.
StepsLeft ==
    IF pc = "done" THEN 0
    ELSE 1 + (MAXGENERATIONS - generation) * (POPSIZE + 2)
           - (IF pc = "pass" THEN i + 1 ELSE 0)

\* main can take a step.  Evaluate only assigns once its guard holds, so its
\* guard stands for it.
CanStep ==
    \/ pc = "eval" /\ LoopGuard(generation)
    \/ ENABLED (Turn \/ NextGeneration \/ Exhausted)

\* C7: the loop ends: short of the end a step can always be taken, and every
\* step brings the end nearer.  It never evaluates more than MAXGENERATIONS
\* generations; it ends at the first generation whose best fitness is 1.0,
\* before any operator of that generation, and otherwise after exactly
\* MAXGENERATIONS generations were evaluated.
C7_LoopTerminates ==
    /\ [](pc = "done" \/ CanStep)
    /\ [](StepsLeft >= 0)
    /\ [][StepsLeft' < StepsLeft]_vars
    /\ [](evals <= MAXGENERATIONS)
    /\ [](bestfitness = QUEENS => pc = "done")
    /\ [](pc = "done" =>
            \/ /\ bestfitness = QUEENS
               /\ evals = generation + 1
               /\ ev.gen < generation
            \/ /\ bestfitness # QUEENS
               /\ evals = MAXGENERATIONS
               /\ generation = MAXGENERATIONS)

\* The loop ended by a best fitness of 1.0 found in its second generation.
C7_Witness == pc = "done" /\ bestfitness = QUEENS /\ generation = 1

\* C8: when the loop has ended, the fitness of the genome reported, the one
\* at bestfitnessindex, is the best fitness of the last generation evaluated.
C8_ReportedIsBest == pc = "done" => fitness(Reported) = bestfitness

\* C9: the population always has POPSIZE individuals, every genome QUEENS
\* genes, every gene in [0, N*N).
C9_PopulationShape ==
    /\ DOMAIN pop = 0 .. (POPSIZE - 1)
    /\ \A k \in DOMAIN pop :
          /\ DOMAIN pop[k] = 0 .. (QUEENS - 1)
          /\ \A g \in DOMAIN pop[k] :
                0 <= pop[k][g] /\ pop[k][g] < BOARDSIZE * BOARDSIZE

\* A turn that reset its individual, mutated a gene, crossed and wrote a new
\* individual.
C9_Witness == ev.reset /\ ev.mut # -1 /\ ev.cross # -1 /\ ev.fresh

\* C10: crossover(A, B, p) for 0 <= p <= QUEENS returns a genome of QUEENS
\* genes, A's below p and B's from p on, and leaves A and B as they were.
C10_CrossoverSplices ==
    /\ [](cxChild # <<>> =>
            /\ DOMAIN cxChild = 0 .. (QUEENS - 1)
            /\ \A k \in DOMAIN cxChild :
                  cxChild[k] = IF k < cxPoint THEN cxA[k] ELSE cxB[k])
    /\ [][cxA' = cxA /\ cxB' = cxB]_vars

\* A crossover of two different genomes at an inner cut point, whose child
\* is neither parent.
C10_Witness ==
    /\ cxChild # <<>> /\ 0 < cxPoint /\ cxPoint < QUEENS
    /\ cxChild # cxA /\ cxChild # cxB

\* The indices whose fitness, as evaluated, is the maximum of the population.
AtMax ==
    { k \in DOMAIN fit : \A j \in DOMAIN fit : fit[j] <= fit[k] }

\* The largest index of a non-empty set of indices.
Last(S) == CHOOSE k \in S : \A j \in S : j <= k

\* C11: after the selection scan, bestfitness is the maximum fitness of the
\* population and bestfitnessindex the last index attaining it; when
\* several individuals attain it, nextbestfitnessindex is the
\* second-to-last index attaining it.
C11_ScanPicksLastMaximum ==
    evals >= 1 =>
        /\ \A k \in DOMAIN pop : fit[k] = fitness(pop[k])
        /\ \A k \in DOMAIN fit : fit[k] <= bestfitness
        /\ \E k \in DOMAIN fit : fit[k] = bestfitness
        /\ bestfitnessindex = Last(AtMax)
        /\ Cardinality(AtMax) >= 2 =>
              nextbestfitnessindex = Last(AtMax \ {bestfitnessindex})

\* Two individuals tie for the maximum and come after a third of lower
\* fitness: the second-highest distinct fitness is at index 0, and
\* nextbestfitnessindex is not 0.
C11_Witness ==
    /\ evals = 1
    /\ AtMax = {1, 2}
    /\ nextbestfitnessindex = 1

\* C12: after the selection scan bestfitness = nextbestfitness exactly when
\* at least two individuals have the maximum fitness, and so the mutation
\* rate of the generation is three times its base rate (0.15 when the best
\* is above the average, 0.4 otherwise) exactly in that case.
C12_TieTriplesMutation ==
    evals >= 1 =>
        /\ (bestfitness = nextbestfitness) <=> (Cardinality(AtMax) >= 2)
        /\ MutRate = (IF bestfitness * POPSIZE > total THEN 15 ELSE 40)
                        * (IF Cardinality(AtMax) >= 2 THEN 3 ELSE 1)

\* Two of three individuals tie for a best that is above the average: the
\* mutation rate is 0.45.
C12_Witness ==
    /\ evals = 1
    /\ Cardinality(AtMax) = 2
    /\ bestfitness = nextbestfitness
    /\ MutRate = 45

\* C13 as the specification states it: on every board of width N >= 2 with
\* N queens, the decode of the all-zero genome places its first queen at
\* cell 0, more than half of the later genes fail to place, and the fitness
\* is below 1.0.
C13_ZeroGenomeFallsShort ==
    pop[0] = NewSolution(QUEENS) =>
        /\ gene = 1 => (call.made /\ ~call.err /\ call.pos = 0)
        /\ result # -1 =>
              /\ 2 * failures > QUEENS - 1
              /\ result < QUEENS

\* C13, amended: on every board of width N from 2 to ZeroBoard with N queens,
\* the decode of the all-zero genome places its first queen at cell 0 and
\* every later queen at the first Free cell in row-major order; on the
\* board of width 5 all five genes place and the fitness is 1.0, on every
\* other width at least one later gene fails and the fitness is below 1.0;
\* from width 4 on fewer than half of the later genes fail.
C13_ZeroGenomeDecode ==
    pop[0] = NewSolution(QUEENS) =>
        /\ gene = 1 => (call.made /\ ~call.err /\ call.pos = 0)
        /\ (call.made /\ ~call.err) =>
              /\ call.before[call.pos] = FREE
              /\ FreeBefore(call.before, call.pos) = {}
        /\ result # -1 =>
              /\ result + failures = QUEENS
              /\ (result = QUEENS) <=> (QUEENS = 5)
              /\ QUEENS >= 4 => 2 * failures < QUEENS - 1

\* The all-zero genome decoded on the board of width 5: five queens, no
\* failure.
C13_Witness ==
    /\ result = QUEENS /\ BOARDSIZE = 5 /\ failures = 0
    /\ pop[0] = [k \in 0 .. 4 |-> 0]

\* The genes in which two populations differ, each as <<slot, gene>>.
Diff(p, q) ==
    { c \in (DOMAIN p) \X (0 .. (QUEENS - 1)) : p[c[1]][c[2]] # q[c[1]][c[2]] }

\* Population q is population p with at most one gene of slot j set to a
\* value of [0, N*N), and nothing else changed.
OneGeneOf(p, q, j) ==
    /\ j \in 0 .. (POPSIZE - 1)
    /\ DOMAIN q = DOMAIN p
    /\ \A k \in DOMAIN p : DOMAIN q[k] = DOMAIN p[k]
    /\ Cardinality(Diff(p, q)) <= 1
    /\ \A c \in Diff(p, q) :
          /\ c[1] = j
          /\ q[c[1]][c[2]] \in 0 .. (BOARDSIZE * BOARDSIZE - 1)

\* C14: the mutation step of a turn picks a target j anywhere in [0, POPSIZE)
\* and sets one gene of genome j to a value of [0, N*N); every other gene
\* of genome j and every gene of every other individual is as it was.
\* Stated of every mutation the step can make in a turn about to be taken,
\* and of every turn taken that did nothing but mutate.
C14_MutationTouchesOneGene ==
    /\ []((pc = "pass" /\ i < POPSIZE) =>
            \A r \in ResetStep(pop, i) : \A m \in MutateStep(r.pop) :
                IF m.mut = -1 THEN m.pop = r.pop
                ELSE OneGeneOf(r.pop, m.pop, m.mut))
    /\ [][(i' = i + 1 /\ ev'.mut # -1 /\ ~ev'.reset /\ ev'.cross = -1 /\ ~ev'.fresh)
              => OneGeneOf(pop, pop', ev'.mut)]_vars

\* The first turn of a pass did nothing but mutate, its target was not the
\* individual of the turn but the one at bestfitnessindex, and the genome
\* there no longer has the fitness it was evaluated with.
C14_Witness ==
    /\ ev.turn = 0 /\ i = 1 /\ pc = "pass"
    /\ ev.mut # -1 /\ ev.mut # ev.turn /\ ev.mut = bestfitnessindex
    /\ ~ev.reset /\ ev.cross = -1 /\ ~ev.fresh
    /\ fitness(pop[ev.mut]) # fit[ev.mut]

\* Genome child has the genes of a below the cut and the genes of b from the
\* cut on.
Spliced(child, a, b, cut) ==
    /\ DOMAIN child = 0 .. (QUEENS - 1)
    /\ \A k \in DOMAIN child : child[k] = IF k < cut THEN a[k] ELSE b[k]

\* C15: the crossover of a turn reads the genomes that are at
\* bestfitnessindex and nextbestfitnessindex when it runs, with every write
\* the pass has made to those slots so far, the reset and the mutation of
\* the same turn included, and writes the child to the slot of the turn
\* only.  Stated of every crossover a turn about to be taken can make, and
\* of every turn taken whose crossover left the child in its slot: the
\* genes it took from another slot are the genes that slot holds after the
\* turn.
C15_CrossoverReadsLiveGenomes ==
    /\ []((pc = "pass" /\ i < POPSIZE) =>
            \A r \in ResetStep(pop, i) : \A m \in MutateStep(r.pop) :
                \A c \in CrossStep(m.pop, i) :
                    IF c.cross = -1 THEN c.pop = m.pop
                    ELSE /\ Spliced(c.pop[i], m.pop[bestfitnessindex],
                                    m.pop[nextbestfitnessindex], c.cross)
                         /\ \A k \in DOMAIN pop : k # i => c.pop[k] = m.pop[k])
    /\ [][(i' = i + 1 /\ ev'.cross # -1 /\ ~ev'.fresh) =>
              \A k \in 0 .. (QUEENS - 1) :
                  /\ (k < ev'.cross /\ bestfitnessindex # i) =>
                        pop'[i][k] = pop'[bestfitnessindex][k]
                  /\ (k >= ev'.cross /\ nextbestfitnessindex # i) =>
                        pop'[i][k] = pop'[nextbestfitnessindex][k]]_vars

\* In the first generation of a seeded run, the turn of individual 1 crossed
\* the genome at index 0 with itself after that genome had been written to
\* earlier in the pass: it is none of the seeds the generation was
\* evaluated on, and the child is no splice of any two of them.
C15_Witness ==
    /\ cfg.seeded /\ generation = 0 /\ pc = "pass"
    /\ ev.turn = 1 /\ ev.cross # -1 /\ ev.mut = -1 /\ ~ev.fresh
    /\ bestfitnessindex = 0 /\ nextbestfitnessindex = 0
    /\ pop[0] \notin Seeds
    /\ pop[1] = pop[0]
    /\ \A a \in Seeds : \A b \in Seeds : ~Spliced(pop[1], a, b, ev.cross)

\* C16: after the selection scan of every generation, nextbestfitness is the
\* fitness, as evaluated in that generation, of the individual at
\* nextbestfitnessindex.
C16_RunnerUpIsConsistent ==
    evals >= 1 => fit[nextbestfitnessindex] = nextbestfitness

\* C17: the best fitness evaluated in a generation is never below the best
\* fitness evaluated in the generation before it.
C17_BestNeverDrops ==
    [][(evals >= 1 /\ evals' = evals + 1) => bestfitness' >= bestfitness]_vars

====
